---- MODULE Spec2Model ----
(***************************************************************************)
(* The agent loop of agent.ts (createChat / chat, callLLM,                 *)
(* requestApproval) together with the tool handlers of tools.ts, as a      *)
(* state machine.  One session is created by createChat and driven, as in  *)
(* index.ts, by one chat() invocation at a time.  The completion endpoint, *)
(* the operator at the approval prompt and the outcome of a handler's I/O  *)
(* are the environment: their answers are drawn from small sets.           *)
(* Further specifications over the same variables run callLLM on error     *)
(* bodies, the approval prompt, the usage totals, the registry lookup, a   *)
(* session with a subset of the tools, two sessions, and chat() called     *)
(* again while an invocation is suspended.                                 *)
(***************************************************************************)
EXTENDS Integers, Sequences, FiniteSets

(***************************************************************************)
(* Bounds of the model.                                                    *)
(***************************************************************************)
\* chat() invocations of one session
MaxTurns == 2
\* maxIterations is drawn from 0 .. MaxIterCeil at createChat
MaxIterCeil == 2
\* tool calls carried by one assistant message
MaxCallsPerReply == 2
\* tool calls the model emits over the whole session (ids are fresh)
MaxToolCallIds == 2
\* an error body is the concatenation of at most MaxFragments fragments
MaxFragments == 4
\* length of the filler fragment of an error body
PadLength == 495

(***************************************************************************)
(* JavaScript values.  A text is a sequence of pieces, so that a template  *)
(* literal is the concatenation of its pieces and "contains" can be asked. *)
(***************************************************************************)
undefined == [t |-> "undefined"]
null == [t |-> "null"]
Str(s) == [t |-> "string", s |-> s]
Num(n) == [t |-> "number", n |-> n]
Arr(a) == [t |-> "array", a |-> a]
Obj(path, query, content) ==
  [t |-> "object", path |-> path, query |-> query, content |-> content]

\* x || y on the values used here: undefined, null, "" and 0 are falsy
Truthy(v) ==
  /\ v.t \notin {"undefined", "null"}
  /\ v.t = "string" => v.s # <<>>
  /\ v.t = "number" => v.n # 0
OrElse(v, w) == IF Truthy(v) THEN v ELSE w

\* obj.field; the caller has checked that obj is not null
Field(obj, f) ==
  IF obj.t # "object" THEN undefined
  ELSE CASE f = "path" -> obj.path
         [] f = "query" -> obj.query
         [] f = "content" -> obj.content
         [] OTHER -> undefined

\* the pieces a value contributes to a template literal `${v}`
Pieces(v) ==
  CASE v.t = "string" -> v.s
    [] v.t = "undefined" -> <<"undefined">>
    [] v.t = "null" -> <<"null">>
    [] OTHER -> <<"[object Object]">>

Range(s) == {s[k] : k \in 1 .. Len(s)}

(***************************************************************************)
(* JSON.parse on the arguments texts the model's replies may carry.        *)
(***************************************************************************)
ArgsWrite == "{\"path\":\"local/out.txt\",\"content\":\"hi\"}"
ArgsQuery == "{\"query\":\"X\"}"
ArgsEmpty == "{}"
ArgsNull == "null"
ArgsTruncated == "{\"query\":"

\* [ok |-> FALSE] stands for the SyntaxError JSON.parse throws
JSONParse(text) ==
  CASE text = ArgsWrite ->
         [ok |-> TRUE,
          val |-> Obj(Str(<<"local/out.txt">>), undefined, Str(<<"hi">>))]
    [] text = ArgsQuery ->
         [ok |-> TRUE, val |-> Obj(undefined, Str(<<"X">>), undefined)]
    [] text = ArgsEmpty ->
         [ok |-> TRUE, val |-> Obj(undefined, undefined, undefined)]
    [] text = ArgsNull -> [ok |-> TRUE, val |-> null]
    [] OTHER -> [ok |-> FALSE, val |-> undefined]

(***************************************************************************)
(* Messages.                                                               *)
(***************************************************************************)
Msg(role, content, tool_calls, tool_call_id) ==
  [role |-> role, content |-> content,
   tool_calls |-> tool_calls, tool_call_id |-> tool_call_id]

SystemPrompt == Str(<<"You are a Research Specialist AI agent.">>)
UserMessages == {Str(<<"what is the capital of France">>)}

CallId(n) == Str(<<"call_", n>>)
ToolCall(id, name, arguments) ==
  [id |-> id, name |-> name, arguments |-> arguments]

(***************************************************************************)
(* The tool registry: the own keys of the toolHandlers object, and what    *)
(* the property read toolHandlers[toolName] yields.                        *)
(***************************************************************************)
\* the handlers of tools.ts
ToolsTsHandlers == {"web_search", "read_file"}
\* the handlers of the repository's full tool set, which adds the file writer
RepoHandlers == ToolsTsHandlers \cup {"write_file"}

APPROVAL_TOOLS == {"write_file", "append_file"}

\* functions every object literal inherits from Object.prototype
ObjectPrototypeMethods == {"toString"}

\* toolHandlers[toolName]: an own handler, an inherited function, or undefined
Lookup(handlers, toolName) ==
  IF toolName \in handlers THEN "own"
  ELSE IF toolName \in ObjectPrototypeMethods THEN "inherited"
  ELSE "undefined"

(***************************************************************************)
(* The handlers.  An outcome is the text the returned promise resolves to, *)
(* or a rejection (throws), which the await in chat rethrows.              *)
(***************************************************************************)
Returns(text) == [throws |-> FALSE, value |-> text]
Rejects == [throws |-> TRUE, value |-> undefined]

\* web_search: ({ query }) => ...; fetch, response.json() and the loop over
\* data.results are outside any try block
WebSearchOutcomes(args) ==
  IF args = null THEN {Rejects}
  ELSE {Returns(Str(<<"Search error (", "500", "): ", "upstream">>)),
        Returns(Str(<<"Title: ", "t", "\n", "URL: ", "u", "\n", "c", "\n\n">>)),
        Rejects}

\* read_file: ({ path }) => try { ... } catch { return `Error reading file` }
ReadFileOutcomes(args) ==
  IF args = null THEN {Rejects}
  ELSE {Returns(Str(<<"file text">>)),
        Returns(Str(<<"Error reading file: ", "ENOENT">>))}

\* write_file: returns text; its failures are converted to text
WriteFileOutcomes(args) ==
  {Returns(Str(<<"Wrote ">> \o Pieces(Field(args, "path")))),
   Returns(Str(<<"Error writing file: ", "EACCES">>))}

\* Object.prototype.toString called with no receiver
InheritedOutcomes(args) == {Returns(Str(<<"[object Undefined]">>))}

HandlerOutcomes(handlers, toolName, args) ==
  CASE Lookup(handlers, toolName) = "inherited" -> InheritedOutcomes(args)
    [] toolName = "web_search" -> WebSearchOutcomes(args)
    [] toolName = "read_file" -> ReadFileOutcomes(args)
    [] OTHER -> WriteFileOutcomes(args)

(***************************************************************************)
(* requestApproval: answer?.trim().toLowerCase() === "y"                   *)
(***************************************************************************)
Whitespace == {" ", "\n", "\t"}

RECURSIVE TrimStart(_)
TrimStart(s) ==
  IF s # <<>> /\ Head(s) \in Whitespace THEN TrimStart(Tail(s)) ELSE s

RECURSIVE TrimEnd(_)
TrimEnd(s) ==
  IF s # <<>> /\ s[Len(s)] \in Whitespace
  THEN TrimEnd(SubSeq(s, 1, Len(s) - 1)) ELSE s

Trim(s) == TrimEnd(TrimStart(s))

LowerChar(ch) ==
  CASE ch = "Y" -> "y"
    [] ch = "N" -> "n"
    [] ch = "E" -> "e"
    [] ch = "S" -> "s"
    [] OTHER -> ch

ToLowerCase(s) == [k \in 1 .. Len(s) |-> LowerChar(s[k])]

\* what prompt() may hand back: null on no input, else the typed characters
Answers ==
  {null, Str(<<>>), Str(<<"y">>), Str(<<" ", "Y", " ">>), Str(<<"n">>),
   Str(<<"y", "e", "s">>)}

\* the answer compared as typed: answer === "y"
requestApprovalExact(toolName, args, answer) == answer = Str(<<"y">>)

\* the value returned at line 393 (args is not null: line 384 reads it)
requestApproval(toolName, args, answer) ==
  IF answer.t # "string" THEN FALSE
  ELSE ToLowerCase(Trim(answer.s)) = <<"y">>

(***************************************************************************)
(* callLLM on a response that is not ok: the error body, a text of single  *)
(* characters, goes through three global replacements and slice(0, 500).   *)
(***************************************************************************)
LowerCase ==
  {"a", "b", "c", "d", "e", "f", "g", "h", "i", "j", "k", "l", "m",
   "n", "o", "p", "q", "r", "s", "t", "u", "v", "w", "x", "y", "z"}
UpperCase ==
  {"A", "B", "C", "D", "E", "F", "G", "H", "I", "J", "K", "L", "M",
   "N", "O", "P", "Q", "R", "S", "T", "U", "V", "W", "X", "Y", "Z"}
Digits == {"0", "1", "2", "3", "4", "5", "6", "7", "8", "9"}
\* [a-zA-Z0-9]
AlphaNumeric == LowerCase \cup UpperCase \cup Digits
\* [a-zA-Z0-9_-]
KeyCharacters == AlphaNumeric \cup {"_", "-"}

\* the characters of the error bodies, and [^"]
Characters == KeyCharacters \cup Whitespace \cup {"\"", ":", ".", "*"}
NotQuote == Characters \ {"\""}

SkPrefix == <<"s", "k", "-">>
AIzaSyPrefix == <<"A", "I", "z", "a", "S", "y">>
ApiKeyName == <<"\"", "a", "p", "i", "_", "k", "e", "y", "\"">>
Stars == <<"*", "*", "*">>

\* the literal lit stands in s at position p
StartsWith(s, p, lit) ==
  /\ p + Len(lit) - 1 <= Len(s)
  /\ \A k \in 1 .. Len(lit) : s[p + k - 1] = lit[k]

\* the position of the first character of s, from p on, that is not in
\* class, or Len(s) + 1: where a greedy run of class that began at p ends
RunEnd(s, p, class) ==
  LET stops == {q \in p .. Len(s) : s[q] \notin class}
  IN IF stops = {} THEN Len(s) + 1
     ELSE CHOOSE q \in stops : \A r \in stops : q <= r

\* the length of the match of the pattern at position p of s, 0 for none
\*   "sk":      /sk-[a-zA-Z0-9]+/
\*   "api_key": /"api_key"\s*:\s*"[^"]*"/
\*   "AIzaSy":  /AIzaSy[a-zA-Z0-9_-]+/
Match(pattern, s, p) ==
  CASE pattern = "sk" ->
         LET e == RunEnd(s, p + 3, AlphaNumeric)
         IN IF StartsWith(s, p, SkPrefix) /\ e > p + 3 THEN e - p ELSE 0
    [] pattern = "AIzaSy" ->
         LET e == RunEnd(s, p + 6, KeyCharacters)
         IN IF StartsWith(s, p, AIzaSyPrefix) /\ e > p + 6 THEN e - p ELSE 0
    [] OTHER ->
         LET colon == RunEnd(s, p + 9, Whitespace)
             open == RunEnd(s, colon + 1, Whitespace)
             close == RunEnd(s, open + 1, NotQuote)
         IN IF /\ StartsWith(s, p, ApiKeyName)
               /\ colon <= Len(s) /\ s[colon] = ":"
               /\ open <= Len(s) /\ s[open] = "\""
               /\ close <= Len(s)
            THEN close - p + 1 ELSE 0

Replacement(pattern) ==
  CASE pattern = "sk" -> SkPrefix \o Stars
    [] pattern = "AIzaSy" -> AIzaSyPrefix \o Stars
    [] OTHER -> ApiKeyName \o <<":", " ", "\"">> \o Stars \o <<"\"">>

\* s from position p on, with every match of the pattern replaced: the
\* matches are found from left to right and do not overlap
RECURSIVE ReplaceFrom(_, _, _)
ReplaceFrom(pattern, s, p) ==
  LET starts == {q \in p .. Len(s) : Match(pattern, s, q) > 0}
  IN IF starts = {} THEN SubSeq(s, p, Len(s))
     ELSE LET q == CHOOSE r \in starts : \A t \in starts : r <= t
          IN SubSeq(s, p, q - 1) \o Replacement(pattern)
               \o ReplaceFrom(pattern, s, q + Match(pattern, s, q))

\* s.replace(/pattern/g, replacement)
Replace(pattern, s) == ReplaceFrom(pattern, s, 1)

\* s.slice(0, n)
Slice(s, n) == SubSeq(s, 1, IF Len(s) < n THEN Len(s) ELSE n)

ErrorBodyLimit == 500

\* the replacement of the sk- keys alone
RedactSkOnly(error) == Replace("api_key", Replace("sk", error))

\* the three replacements of lines 367-369
Redact(error) == Replace("AIzaSy", Replace("api_key", Replace("sk", error)))

\* slice(0, 500) placed before the replacements
sanitizedSliceFirst(error) == Redact(Slice(error, ErrorBodyLimit))

sanitized(error) == Slice(Redact(error), ErrorBodyLimit)

\* `API error (${response.status}): ${sanitized}`
APIError(status, error) ==
  Str(<<"API error (", status, "): ">> \o sanitized(error))

\* the texts a failing endpoint may send back: at most MaxFragments
\* fragments, of which the first one may be a filler
Pad == [k \in 1 .. PadLength |-> "."]
Fragments ==
  {SkPrefix, <<"a", "9">>, <<"-">>, AIzaSyPrefix,
   ApiKeyName \o <<" ", ":", "\"">>, <<"\"">>}

RECURSIVE Flatten(_)
Flatten(f) ==
  IF f = <<>> THEN <<>> ELSE Head(f) \o Flatten(Tail(f))

ErrorBodies ==
  UNION {{Flatten(f) :
            f \in {g \in [1 .. n -> Fragments \cup {Pad}] :
                     \A k \in 2 .. n : g[k] # Pad}} :
         n \in 0 .. MaxFragments}

Statuses == {"401", "500"}
Upstream == <<"u", "p", "s", "t", "r", "e", "a", "m">>

\* what fetch resolved to in callLLM
NotOk(status, text) == [ok |-> FALSE, status |-> status, body |-> Str(text)]
ChatResponse(choices, usage) == [choices |-> choices, usage |-> usage]
Ok(json) == [ok |-> TRUE, status |-> "200", body |-> json]

(***************************************************************************)
(* Token accounting: response.usage, the three totals of chat and the      *)
(* "Total" line printed with the final answer.                             *)
(***************************************************************************)
Usage(prompt, completion, hit) ==
  [t |-> "object", prompt_tokens |-> Num(prompt),
   completion_tokens |-> Num(completion), prompt_cache_hit_tokens |-> hit]

\* response.usage: absent, without the cache field, with it
Usages ==
  {undefined, Usage(600, 7, undefined), Usage(800, 5, Num(600)),
   Usage(0, 0, Num(0))}

\* what one reply adds to totalIn, totalOut and totalCached (lines 424-428)
AddedIn(usage) == IF Truthy(usage) THEN usage.prompt_tokens.n ELSE 0
AddedOut(usage) == IF Truthy(usage) THEN usage.completion_tokens.n ELSE 0
AddedCached(usage) ==
  IF Truthy(usage) THEN OrElse(usage.prompt_cache_hit_tokens, Num(0)).n ELSE 0

DigitCharacter(d) ==
  <<"0", "1", "2", "3", "4", "5", "6", "7", "8", "9">>[d + 1]

RECURSIVE Decimal(_)
Decimal(n) ==
  IF n < 10 THEN <<DigitCharacter(n)>>
  ELSE Decimal(n \div 10) \o <<DigitCharacter(n % 10)>>

\* n.toLocaleString(): the digits in groups of three
RECURSIVE toLocaleString(_)
toLocaleString(n) ==
  IF n < 1000 THEN Decimal(n)
  ELSE toLocaleString(n \div 1000)
         \o <<",", DigitCharacter((n \div 100) % 10),
              DigitCharacter((n \div 10) % 10), DigitCharacter(n % 10)>>

\* x.toFixed(0) of the quotient num / den: the nearest integer, the larger
\* one of two that are equally near
ToFixed0(num, den) == Decimal((2 * num + den) \div (2 * den))

\* totalIn > 0 ? ((totalCached / totalIn) * 100).toFixed(0) : "0"
overallCache(cached, in) ==
  IF in > 0 THEN ToFixed0(cached * 100, in) ELSE <<"0">>

\* the line `Total: ${totalIn} in | ${totalOut} out | ${overallCache}% cached`
TotalLine(in, out, cached) ==
  [in |-> toLocaleString(in), out |-> toLocaleString(out),
   cache |-> overallCache(cached, in)]

(***************************************************************************)
(* State.                                                                  *)
(***************************************************************************)
VARIABLES
  toolHandlers,      \* own keys of the toolHandlers object of the build
  session,           \* the arguments createChat closed over
  messages,          \* the Conversation
  pc,                \* where the running chat() is suspended, or "idle"
  i,                 \* the loop counter of chat
  j,                 \* position in assistantMessage.tool_calls
  assistantMessage,  \* choice.message of the current round
  request,           \* what the last callLLM sent
  response,          \* what the fetch of the last callLLM resolved to
  result,            \* how the last chat() ended
  turns,             \* chat() invocations so far
  modelCalls,        \* callLLM invocations of the current turn
  allToolReplies,    \* every reply of the current turn carried a tool call
  handlerLog,        \* handler invocations, in order
  gateLog,           \* requestApproval invocations, in order
  nextId,            \* number of tool call ids handed out by the model
  totalIn,           \* the usage totals of the running chat()
  totalOut,
  totalCached,
  totalLine,         \* the "Total" line the current turn printed, if any
  usageLog,          \* response.usage of the replies received, in order
  other,             \* the state of a second session while it does not run
  active             \* which session the other variables belong to: 1 or 2

vars ==
  <<toolHandlers, session, messages, pc, i, j, assistantMessage, request,
    response, result, turns, modelCalls, allToolReplies, handlerLog, gateLog,
    nextId, totalIn, totalOut, totalCached, totalLine, usageLog, other,
    active>>

build == <<toolHandlers, session>>
logs == <<handlerLog, gateLog>>
totals == <<totalIn, totalOut, totalCached>>
accounting == <<totals, totalLine, usageLog>>
sessions == <<other, active>>

NoResult == [kind |-> "none", value |-> undefined, cause |-> "none"]
\* cause tells the return statements apart: "final" (line 498), "exhausted" (502)
Returned(cause, text) == [kind |-> "returned", value |-> text, cause |-> cause]
Thrown(cause, text) == [kind |-> "thrown", value |-> text, cause |-> cause]

ExhaustionNotice == Str(<<"Reached max iterations.">>)
NoResponse == Str(<<"No response">>)

\* tool declarations createChat may be given (the names they declare)
toolSchemas == {"web_search", "read_file"}

\* no second session
NoSession == {undefined}

\* the state after createChat: the registry of the build, the arguments of
\* the createChat call and, where there is one, a second session
InitWith(registries, createChatArgs, secondSessions) ==
  /\ toolHandlers \in registries
  /\ session \in createChatArgs
  /\ messages = <<Msg("system", session.systemPrompt, undefined, undefined)>>
  /\ pc = "idle"
  /\ i = 0
  /\ j = 0
  /\ assistantMessage = undefined
  /\ request = [messages |-> <<>>, tools |-> {}]
  /\ response = undefined
  /\ result = NoResult
  /\ turns = 0
  /\ modelCalls = 0
  /\ allToolReplies = TRUE
  /\ handlerLog = <<>>
  /\ gateLog = <<>>
  /\ nextId = 0
  /\ totalIn = 0
  /\ totalOut = 0
  /\ totalCached = 0
  /\ totalLine = undefined
  /\ usageLog = <<>>
  /\ other \in secondSessions
  /\ active = 1

Init ==
  InitWith({ToolsTsHandlers, RepoHandlers},
           [systemPrompt : {SystemPrompt},
            tools : {toolSchemas},
            maxIterations : 0 .. MaxIterCeil],
           NoSession)

(***************************************************************************)
(* chat(userMessage)                                                       *)
(***************************************************************************)
\* an uncaught exception leaves chat: the promise it returned rejects
Throw(cause, text) ==
  /\ pc' = "idle"
  /\ result' = Thrown(cause, text)

\* the test of the for loop with counter iNew: the next callLLM, or the
\* return after the loop
LoopHead(msgs, iNew, callsSoFar) ==
  /\ i' = iNew
  /\ response' = undefined
  /\ IF iNew < session.maxIterations
     THEN /\ pc' = "awaitLLM"
          /\ request' = [messages |-> msgs, tools |-> session.tools]
          /\ modelCalls' = callsSoFar + 1
          /\ result' = NoResult
     ELSE /\ pc' = "idle"
          /\ result' = Returned("exhausted", ExhaustionNotice)
          /\ modelCalls' = callsSoFar
          /\ UNCHANGED request

\* the totals declared once per session: chat() does not start from zero
ChatKeepsTotals(userMessage) ==
  /\ pc = "idle"
  /\ turns < MaxTurns
  /\ turns' = turns + 1
  /\ messages' = Append(messages, Msg("user", userMessage, undefined, undefined))
  /\ allToolReplies' = TRUE
  /\ LoopHead(messages', 0, 0)
  /\ totalLine' = undefined
  /\ UNCHANGED <<build, sessions, totals, usageLog, j, assistantMessage, logs, nextId>>

\* every chat() pushes the system prompt again before the user message
ChatReseeds(userMessage) ==
  /\ pc = "idle"
  /\ turns < MaxTurns
  /\ turns' = turns + 1
  /\ messages' =
       messages \o <<Msg("system", session.systemPrompt, undefined, undefined),
                     Msg("user", userMessage, undefined, undefined)>>
  /\ allToolReplies' = TRUE
  /\ LoopHead(messages', 0, 0)
  /\ totalIn' = 0 /\ totalOut' = 0 /\ totalCached' = 0
  /\ totalLine' = undefined
  /\ UNCHANGED <<build, sessions, usageLog, j, assistantMessage, logs, nextId>>

Chat(userMessage) ==
  /\ pc = "idle"
  /\ turns < MaxTurns
  /\ turns' = turns + 1
  /\ messages' = Append(messages, Msg("user", userMessage, undefined, undefined))
  /\ allToolReplies' = TRUE
  /\ LoopHead(messages', 0, 0)
  /\ totalIn' = 0 /\ totalOut' = 0 /\ totalCached' = 0
  /\ totalLine' = undefined
  /\ UNCHANGED <<build, sessions, usageLog, j, assistantMessage, logs, nextId>>

(***************************************************************************)
(* The completion endpoint's answers to callLLM.                           *)
(***************************************************************************)
FinalContents == {null, Str(<<>>), Str(<<"Paris">>)}

\* assistant messages with no tool call: tool_calls absent or empty
FinalReplies ==
  {Msg("assistant", c, tc, undefined) :
     c \in FinalContents, tc \in {undefined, Arr(<<>>)}}

\* the (name, arguments) pairs a requested tool call is drawn from
ToolCallChoices ==
  {<<"web_search", ArgsQuery>>, <<"web_search", ArgsNull>>,
   <<"web_search", ArgsTruncated>>,
   <<"read_file", ArgsWrite>>, <<"read_file", ArgsNull>>,
   <<"write_file", ArgsWrite>>, <<"write_file", ArgsEmpty>>,
   <<"write_file", ArgsNull>>,
   <<"nonexistent_tool", ArgsQuery>>, <<"nonexistent_tool", ArgsTruncated>>,
   <<"toString", ArgsEmpty>>}

\* assistant messages with k tool calls drawn from choices, whose ids are
\* the next k fresh ones
ToolRepliesFrom(choices, n0) ==
  UNION {
    {Msg("assistant", null,
         Arr([k \in 1 .. n |->
                ToolCall(CallId(n0 + k), pick[k][1], pick[k][2])]),
         undefined) :
       pick \in [1 .. n -> choices]} :
    n \in {m \in 1 .. MaxCallsPerReply : n0 + m <= MaxToolCallIds}}

ToolReplies(n0) == ToolRepliesFrom(ToolCallChoices, n0)

\* the final answer "Paris"
Paris == Msg("assistant", Str(<<"Paris">>), undefined, undefined)

\* assistantMessage.tool_calls && assistantMessage.tool_calls.length > 0
HasToolCalls(m) == m.tool_calls.t = "array" /\ Len(m.tool_calls.a) > 0

\* the placeholder only for an absent content (?? in place of ||)
FinalAnswerNullish(m) ==
  IF m.content.t \in {"null", "undefined"} THEN NoResponse ELSE m.content

\* assistantMessage.content || "No response"
FinalAnswer(m) == OrElse(m.content, NoResponse)

\* callLLM on a response whose status is not ok: the sanitized body is thrown
CallLLMThrows(status, error) ==
  /\ pc = "awaitLLM"
  /\ response' = NotOk(status, error)
  /\ Throw("transport", APIError(status, error))
  /\ allToolReplies' = FALSE
  /\ UNCHANGED <<build, sessions, accounting, messages, i, j, assistantMessage, request, turns,
                 modelCalls, logs, nextId>>

\* the failure recorded in the Conversation before it is thrown
CallLLMFailsRecorded ==
  /\ pc = "awaitLLM"
  /\ response' = NotOk("500", Upstream)
  /\ Throw("transport", APIError("500", Upstream))
  /\ messages' = Append(messages,
       Msg("assistant", Str(<<"API error">>), undefined, undefined))
  /\ allToolReplies' = FALSE
  /\ UNCHANGED <<build, sessions, accounting, i, j, assistantMessage, request, turns, modelCalls,
                 logs, nextId>>

\* callLLM throws: the response status is not ok
CallLLMFails == CallLLMThrows("500", Upstream)

\* the push of line 439 placed before the check of line 436
ReplyWithoutChoicePushed ==
  /\ pc = "awaitLLM"
  /\ response' = Ok(ChatResponse(Arr(<<>>), undefined))
  /\ Throw("nochoice", Str(<<"No response from LLM">>))
  /\ messages' = Append(messages, Msg("assistant", null, undefined, undefined))
  /\ allToolReplies' = FALSE
  /\ UNCHANGED <<build, sessions, accounting, i, j, assistantMessage, request, turns, modelCalls,
                 logs, nextId>>

\* response.choices[0] is undefined
ReplyWithoutChoice ==
  /\ pc = "awaitLLM"
  /\ response' = Ok(ChatResponse(Arr(<<>>), undefined))
  /\ Throw("nochoice", Str(<<"No response from LLM">>))
  /\ allToolReplies' = FALSE
  /\ UNCHANGED <<build, sessions, accounting, messages, i, j, assistantMessage, request, turns,
                 modelCalls, logs, nextId>>

\* the reply's usage is added to the totals and its message is pushed;
\* without tool calls chat prints the totals and returns the content
Reply(msg, usage) ==
  /\ pc = "awaitLLM"
  /\ response' = Ok(ChatResponse(Arr(<<msg>>), usage))
  /\ totalIn' = totalIn + AddedIn(usage)
  /\ totalOut' = totalOut + AddedOut(usage)
  /\ totalCached' = totalCached + AddedCached(usage)
  /\ usageLog' = Append(usageLog, [turn |-> turns, usage |-> usage])
  /\ assistantMessage' = msg
  /\ messages' = Append(messages, msg)
  /\ IF HasToolCalls(msg)
     THEN /\ pc' = "dispatch"
          /\ j' = 1
          /\ nextId' = nextId + Len(msg.tool_calls.a)
          /\ UNCHANGED <<result, allToolReplies, totalLine>>
     ELSE /\ pc' = "idle"
          /\ result' = Returned("final", FinalAnswer(msg))
          /\ totalLine' = TotalLine(totalIn', totalOut', totalCached')
          /\ allToolReplies' = FALSE
          /\ UNCHANGED <<j, nextId>>
  /\ UNCHANGED <<build, sessions, i, request, turns, modelCalls, logs>>

(***************************************************************************)
(* The body of the loop over assistantMessage.tool_calls, one tool call    *)
(* per step.                                                               *)
(***************************************************************************)
\* the tool calls taken from the last one to the first
toolCallFromLast ==
  assistantMessage.tool_calls.a[Len(assistantMessage.tool_calls.a) + 1 - j]

toolCall == assistantMessage.tool_calls.a[j]
toolName == toolCall.name
parsed == JSONParse(toolCall.arguments)
toolArgs == parsed.val

\* the console line of a "think" or "web_search" call reads a property of
\* toolArgs, which throws a TypeError when toolArgs is null
LoggingReadsProperty(name) == name \in {"think", "web_search"}

UnknownToolText(name) == Str(<<"Error: Unknown tool \"", name, "\"">>)

\* the denial text without the target
DeniedTextNoTarget(name, args) == Str(<<"User denied ", name>>)

DeniedText(name, args) ==
  Str(<<"User denied ", name, " to: ">>
        \o Pieces(OrElse(Field(args, "path"), Str(<<"unknown">>))))

\* the approval's answer ignored
DeniedNever(name, approved) == FALSE

\* APPROVAL_TOOLS.includes(toolName) && !requestApproval(toolName, toolArgs)
Denied(name, approved) == name \in APPROVAL_TOOLS /\ ~approved

\* the result of a tool call pushed with the role of the model
ToolMessageAsAssistant(id, content) == Msg("assistant", content, undefined, id)

ToolMessage(id, content) == Msg("tool", content, undefined, id)

\* the tool call reached the registry lookup: its arguments were decoded and
\* the console line was printed
ReachesLookup ==
  /\ pc = "dispatch"
  /\ parsed.ok
  /\ ~(toolArgs = null /\ LoggingReadsProperty(toolName))

\* an exhausted turn rolls the Conversation back to the one of its last call
ContinueRollback(msgs) ==
  IF j < Len(assistantMessage.tool_calls.a)
  THEN /\ messages' = msgs
       /\ pc' = "dispatch"
       /\ j' = j + 1
       /\ UNCHANGED <<i, request, response, modelCalls, result>>
  ELSE /\ j' = j
       /\ LoopHead(msgs, i + 1, modelCalls)
       /\ messages' = IF i + 1 < session.maxIterations
                      THEN msgs ELSE request.messages

\* after a tool message is pushed: the next tool call, or the next round
Continue(msgs) ==
  /\ messages' = msgs
  /\ IF j < Len(assistantMessage.tool_calls.a)
     THEN /\ pc' = "dispatch"
          /\ j' = j + 1
          /\ UNCHANGED <<i, request, response, modelCalls, result>>
     ELSE /\ j' = j
          /\ LoopHead(msgs, i + 1, modelCalls)

StartHandler ==
  /\ pc' = "awaitHandler"
  /\ handlerLog' = Append(handlerLog,
       [turn |-> turns, id |-> toolCall.id, name |-> toolName,
        args |-> toolArgs])
  /\ UNCHANGED <<messages, i, j, request, modelCalls, result>>

\* JSON.parse(toolCall.function.arguments) throws
ArgumentsUndecodable ==
  /\ pc = "dispatch"
  /\ ~parsed.ok
  /\ Throw("parse", Str(<<"SyntaxError: JSON Parse error">>))
  /\ UNCHANGED <<build, sessions, accounting, response, messages, i, j, assistantMessage, request, turns,
                 modelCalls, allToolReplies, logs, nextId>>

\* toolArgs.thought / toolArgs.query on null
LoggingThrows ==
  /\ pc = "dispatch"
  /\ parsed.ok
  /\ toolArgs = null /\ LoggingReadsProperty(toolName)
  /\ Throw("typeerror", Str(<<"TypeError: null is not an object">>))
  /\ UNCHANGED <<build, sessions, accounting, response, messages, i, j, assistantMessage, request, turns,
                 modelCalls, allToolReplies, logs, nextId>>

\* the approval prompt put before the registry lookup: the operator is asked
\* about a gated name that has no handler
UnknownToolAfterPrompt ==
  /\ ReachesLookup
  /\ Lookup(toolHandlers, toolName) = "undefined"
  /\ gateLog' =
       IF toolName \in APPROVAL_TOOLS /\ toolArgs # null
       THEN Append(gateLog,
              [turn |-> turns, id |-> toolCall.id, name |-> toolName,
               args |-> toolArgs, answer |-> Str(<<"y">>), approved |-> TRUE])
       ELSE gateLog
  /\ Continue(Append(messages,
                     ToolMessage(toolCall.id, UnknownToolText(toolName))))
  /\ UNCHANGED <<build, sessions, accounting, assistantMessage, turns,
                 allToolReplies, handlerLog, nextId>>

UnknownTool ==
  /\ ReachesLookup
  /\ Lookup(toolHandlers, toolName) = "undefined"
  /\ Continue(Append(messages,
                     ToolMessage(toolCall.id, UnknownToolText(toolName))))
  /\ UNCHANGED <<build, sessions, accounting, assistantMessage, turns, allToolReplies, logs, nextId>>

\* requestApproval reads args.path before it prompts
ApprovalThrows ==
  /\ ReachesLookup
  /\ Lookup(toolHandlers, toolName) # "undefined"
  /\ toolName \in APPROVAL_TOOLS
  /\ toolArgs = null
  /\ Throw("typeerror", Str(<<"TypeError: null is not an object">>))
  /\ UNCHANGED <<build, sessions, accounting, response, messages, i, j, assistantMessage, request, turns,
                 modelCalls, allToolReplies, logs, nextId>>

GateEntry(answer, approved) ==
  [turn |-> turns, id |-> toolCall.id, name |-> toolName, args |-> toolArgs,
   answer |-> answer, approved |-> approved]

ApprovalDenied(answer) ==
  /\ ReachesLookup
  /\ Lookup(toolHandlers, toolName) # "undefined"
  /\ toolName \in APPROVAL_TOOLS
  /\ toolArgs # null
  /\ LET approved == requestApproval(toolName, toolArgs, answer) IN
       /\ Denied(toolName, approved)
       /\ gateLog' = Append(gateLog, GateEntry(answer, approved))
  /\ Continue(Append(messages,
                     ToolMessage(toolCall.id, DeniedText(toolName, toolArgs))))
  /\ UNCHANGED <<build, sessions, accounting, assistantMessage, turns, allToolReplies, handlerLog,
                 nextId>>

ApprovalGranted(answer) ==
  /\ ReachesLookup
  /\ Lookup(toolHandlers, toolName) # "undefined"
  /\ toolName \in APPROVAL_TOOLS
  /\ toolArgs # null
  /\ LET approved == requestApproval(toolName, toolArgs, answer) IN
       /\ ~Denied(toolName, approved)
       /\ gateLog' = Append(gateLog, GateEntry(answer, approved))
  /\ StartHandler
  /\ UNCHANGED <<build, sessions, accounting, response, assistantMessage, turns, allToolReplies, nextId>>

\* a tool outside APPROVAL_TOOLS: requestApproval is not evaluated
InvokeUngated ==
  /\ ReachesLookup
  /\ Lookup(toolHandlers, toolName) # "undefined"
  /\ toolName \notin APPROVAL_TOOLS
  /\ StartHandler
  /\ UNCHANGED <<build, sessions, accounting, response, assistantMessage, turns, allToolReplies, gateLog,
                 nextId>>

\* await handler(toolArgs) yields the result, which is pushed
HandlerReturns ==
  /\ pc = "awaitHandler"
  /\ \E outcome \in HandlerOutcomes(toolHandlers, toolName, toolArgs) :
       /\ ~outcome.throws
       /\ Continue(Append(messages, ToolMessage(toolCall.id, outcome.value)))
  /\ UNCHANGED <<build, sessions, accounting, assistantMessage, turns, allToolReplies, logs, nextId>>

\* await handler(toolArgs) rethrows the handler's rejection
HandlerThrows ==
  /\ pc = "awaitHandler"
  /\ \E outcome \in HandlerOutcomes(toolHandlers, toolName, toolArgs) :
       outcome.throws
  /\ Throw("handler", Str(<<"TypeError: fetch failed">>))
  /\ UNCHANGED <<build, sessions, accounting, response, messages, i, j, assistantMessage, request, turns,
                 modelCalls, allToolReplies, logs, nextId>>

ToolCallsOf(m) ==
  IF m.role = "assistant" /\ HasToolCalls(m) THEN m.tool_calls.a ELSE <<>>

Next ==
  \/ \E userMessage \in UserMessages : Chat(userMessage)
  \/ CallLLMFails
  \/ ReplyWithoutChoice
  \/ \E msg \in FinalReplies \cup ToolReplies(nextId) : Reply(msg, undefined)
  \/ ArgumentsUndecodable
  \/ LoggingThrows
  \/ UnknownTool
  \/ ApprovalThrows
  \/ \E answer \in Answers : ApprovalDenied(answer)
  \/ \E answer \in Answers : ApprovalGranted(answer)
  \/ InvokeUngated
  \/ HandlerReturns
  \/ HandlerThrows

Spec == Init /\ [][Next]_vars

\* callLLM alone: the call of the first turn meets a response that is not
\* ok, whose status and body are drawn from Statuses and ErrorBodies
NextCallLLM ==
  \/ \E userMessage \in UserMessages : turns = 0 /\ Chat(userMessage)
  \/ \E status \in Statuses, error \in ErrorBodies :
       CallLLMThrows(status, error)

\* one session of the repository's build with room for one call per turn
InitCallLLM ==
  /\ Init
  /\ toolHandlers = RepoHandlers
  /\ session.maxIterations = 1

SpecCallLLM == InitCallLLM /\ [][NextCallLLM]_vars

(***************************************************************************)
(* Two sessions.  Each createChat call has its own messages array and each *)
(* chat() its own locals; the code of one session runs until it awaits,    *)
(* and then code of the other session may run.                             *)
(***************************************************************************)
OtherSystemPrompt == Str(<<"You are a Fact Checker AI agent.">>)

\* what the operator types into the session
UserMessageOf(sessionId) == Str(<<"question put to session ", sessionId>>)

\* the variables a createChat closure and its running chat() own
Locals ==
  [session |-> session, messages |-> messages, pc |-> pc, i |-> i, j |-> j,
   assistantMessage |-> assistantMessage, request |-> request,
   response |-> response, result |-> result, turns |-> turns,
   modelCalls |-> modelCalls, allToolReplies |-> allToolReplies,
   totalIn |-> totalIn, totalOut |-> totalOut, totalCached |-> totalCached,
   totalLine |-> totalLine]

\* a single messages array at module level, used by every session
SwitchSharedMessages ==
  /\ pc \in {"idle", "awaitLLM", "awaitHandler"}
  /\ other # undefined
  /\ other' = Locals
  /\ active' = 3 - active
  /\ session' = other.session
  /\ messages' = messages
  /\ pc' = other.pc
  /\ i' = other.i
  /\ j' = other.j
  /\ assistantMessage' = other.assistantMessage
  /\ request' = other.request
  /\ response' = other.response
  /\ result' = other.result
  /\ turns' = other.turns
  /\ modelCalls' = other.modelCalls
  /\ allToolReplies' = other.allToolReplies
  /\ totalIn' = other.totalIn
  /\ totalOut' = other.totalOut
  /\ totalCached' = other.totalCached
  /\ totalLine' = other.totalLine
  /\ UNCHANGED <<toolHandlers, logs, nextId, usageLog>>

\* the running session awaits (or is idle) and the other session gets to run
Switch ==
  /\ pc \in {"idle", "awaitLLM", "awaitHandler"}
  /\ other # undefined
  /\ other' = Locals
  /\ active' = 3 - active
  /\ session' = other.session
  /\ messages' = other.messages
  /\ pc' = other.pc
  /\ i' = other.i
  /\ j' = other.j
  /\ assistantMessage' = other.assistantMessage
  /\ request' = other.request
  /\ response' = other.response
  /\ result' = other.result
  /\ turns' = other.turns
  /\ modelCalls' = other.modelCalls
  /\ allToolReplies' = other.allToolReplies
  /\ totalIn' = other.totalIn
  /\ totalOut' = other.totalOut
  /\ totalCached' = other.totalCached
  /\ totalLine' = other.totalLine
  /\ UNCHANGED <<toolHandlers, logs, nextId, usageLog>>

\* two createChat calls on the build of tools.ts, the second one with
\* maxIterations = 1
InitSessions ==
  InitWith({ToolsTsHandlers},
           [systemPrompt : {SystemPrompt},
            tools : {toolSchemas},
            maxIterations : 1 .. MaxIterCeil],
           {[session |-> [systemPrompt |-> OtherSystemPrompt,
                          tools |-> toolSchemas, maxIterations |-> 1],
             messages |->
               <<Msg("system", OtherSystemPrompt, undefined, undefined)>>,
             pc |-> "idle", i |-> 0, j |-> 0, assistantMessage |-> undefined,
             request |-> [messages |-> <<>>, tools |-> {}],
             response |-> undefined, result |-> NoResult, turns |-> 0,
             modelCalls |-> 0, allToolReplies |-> TRUE, totalIn |-> 0,
             totalOut |-> 0, totalCached |-> 0, totalLine |-> undefined]})

\* the replies of the two-session runs: a final answer, or calls of
\* read_file
SessionReplies(n0) ==
  {Paris} \cup ToolRepliesFrom({<<"read_file", ArgsWrite>>}, n0)

NextSessions ==
  \/ Chat(UserMessageOf(active))
  \/ \E msg \in SessionReplies(nextId) : Reply(msg, undefined)
  \/ InvokeUngated
  \/ HandlerReturns
  \/ Switch

SpecSessions == InitSessions /\ [][NextSessions]_vars

(***************************************************************************)
(* chat() called again on the same session while an earlier call of it is  *)
(* suspended at an await.  The two invocations have their own locals and   *)
(* share the messages array of the createChat closure; other holds the     *)
(* locals of the invocation that does not run.                             *)
(***************************************************************************)
Suspended == {"awaitLLM", "awaitHandler"}

\* chat(userMessage) called while the running invocation awaits: it pushes
\* the user message and runs up to its first callLLM
ChatAgain(userMessage) ==
  /\ pc \in Suspended
  /\ IF other = undefined THEN TRUE ELSE other.pc = "idle"
  /\ turns < MaxTurns
  /\ other' = Locals
  /\ active' = 3 - active
  /\ turns' = turns + 1
  /\ messages' = Append(messages, Msg("user", userMessage, undefined, undefined))
  /\ allToolReplies' = TRUE
  /\ LoopHead(messages', 0, 0)
  /\ totalIn' = 0 /\ totalOut' = 0 /\ totalCached' = 0
  /\ totalLine' = undefined
  /\ j' = 0
  /\ assistantMessage' = undefined
  /\ UNCHANGED <<build, usageLog, logs, nextId>>

\* the promise the other invocation awaits settles first: that invocation
\* goes on, on the same messages array
Resume ==
  /\ pc \in Suspended \cup {"idle"}
  /\ other # undefined
  /\ other.pc \in Suspended
  /\ other' = Locals
  /\ active' = 3 - active
  /\ pc' = other.pc
  /\ i' = other.i
  /\ j' = other.j
  /\ assistantMessage' = other.assistantMessage
  /\ request' = other.request
  /\ response' = other.response
  /\ result' = other.result
  /\ modelCalls' = other.modelCalls
  /\ allToolReplies' = other.allToolReplies
  /\ totalIn' = other.totalIn
  /\ totalOut' = other.totalOut
  /\ totalCached' = other.totalCached
  /\ totalLine' = other.totalLine
  /\ UNCHANGED <<build, messages, turns, logs, nextId, usageLog>>

\* one createChat call on the build of tools.ts
InitReentrant ==
  InitWith({ToolsTsHandlers},
           [systemPrompt : {SystemPrompt},
            tools : {toolSchemas},
            maxIterations : 1 .. MaxIterCeil],
           NoSession)

\* no step of these runs throws: the replies are a final answer or calls
\* of read_file with a path, which read_file answers with a text
NextReentrant ==
  \/ \E userMessage \in UserMessages : Chat(userMessage)
  \/ \E userMessage \in UserMessages : ChatAgain(userMessage)
  \/ Resume
  \/ \E msg \in SessionReplies(nextId) : Reply(msg, undefined)
  \/ InvokeUngated
  \/ HandlerReturns

SpecReentrant == InitReentrant /\ [][NextReentrant]_vars

(***************************************************************************)
(* A session that is given a subset of the tool declarations.              *)
(***************************************************************************)
\* createChat(provider, systemPrompt, tools) with the declaration of
\* web_search alone, on the build of tools.ts
InitSubset ==
  InitWith({ToolsTsHandlers},
           [systemPrompt : {SystemPrompt},
            tools : {{"web_search"}},
            maxIterations : 0 .. MaxIterCeil],
           NoSession)

\* the replies of these runs: a final answer, or calls of web_search, of
\* read_file and of a tool that is not registered
SubsetReplies(n0) ==
  {Paris} \cup
    ToolRepliesFrom({<<"nonexistent_tool", ArgsQuery>>,
                     <<"web_search", ArgsQuery>>,
                     <<"read_file", ArgsWrite>>}, n0)

NextSubset ==
  \/ \E userMessage \in UserMessages : Chat(userMessage)
  \/ \E msg \in SubsetReplies(nextId) : Reply(msg, undefined)
  \/ UnknownTool
  \/ InvokeUngated
  \/ HandlerReturns
  \/ HandlerThrows

SpecSubset == InitSubset /\ [][NextSubset]_vars

(***************************************************************************)
(* The approval prompt alone: every tool call is a write_file call.        *)
(***************************************************************************)
InitApproval ==
  InitWith({RepoHandlers},
           [systemPrompt : {SystemPrompt},
            tools : {toolSchemas},
            maxIterations : 0 .. MaxIterCeil],
           NoSession)

ApprovalReplies(n0) ==
  {Paris} \cup ToolRepliesFrom({<<"write_file", ArgsWrite>>}, n0)

NextApproval ==
  \/ \E userMessage \in UserMessages : Chat(userMessage)
  \/ \E msg \in ApprovalReplies(nextId) : Reply(msg, undefined)
  \/ \E answer \in Answers : ApprovalDenied(answer)
  \/ \E answer \in Answers : ApprovalGranted(answer)
  \/ HandlerReturns

SpecApproval == InitApproval /\ [][NextApproval]_vars

(***************************************************************************)
(* The registry lookup and the approval prompt: calls of a gated and of a  *)
(* non-gated tool, on the build of tools.ts and on the full tool set.      *)
(***************************************************************************)
GateReplies(n0) ==
  {Paris} \cup
    ToolRepliesFrom({<<"write_file", ArgsWrite>>,
                     <<"write_file", ArgsTruncated>>,
                     <<"read_file", ArgsWrite>>}, n0)

NextGate ==
  \/ \E userMessage \in UserMessages : Chat(userMessage)
  \/ \E msg \in GateReplies(nextId) : Reply(msg, undefined)
  \/ ArgumentsUndecodable
  \/ UnknownTool
  \/ \E answer \in Answers : ApprovalDenied(answer)
  \/ \E answer \in Answers : ApprovalGranted(answer)
  \/ InvokeUngated
  \/ HandlerReturns

SpecGate == Init /\ [][NextGate]_vars

\* the replies of the accounting runs: a final answer, or calls of a tool
\* that is not registered
UsageReplies(n0) ==
  {Paris} \cup ToolRepliesFrom({<<"nonexistent_tool", ArgsQuery>>}, n0)

\* chat with replies that carry every shape of usage
NextUsage ==
  \/ \E userMessage \in UserMessages : Chat(userMessage)
  \/ \E msg \in UsageReplies(nextId), usage \in Usages : Reply(msg, usage)
  \/ UnknownTool

SpecUsage == Init /\ [][NextUsage]_vars

(***************************************************************************)
(* Properties.                                                             *)
(***************************************************************************)
\* the index of the first assistant or user message after k, or Len + 1
SegmentEnd(msgs, k) ==
  LET later == {n \in (k + 1) .. Len(msgs) :
                  msgs[n].role \in {"assistant", "user"}}
  IN IF later = {} THEN Len(msgs) + 1
     ELSE CHOOSE n \in later : \A m \in later : n <= m

\* the tool-role messages answering id between msgs[k] and the next
\* assistant or user message
AnswersTo(msgs, k, id) ==
  {n \in (k + 1) .. (SegmentEnd(msgs, k) - 1) :
     msgs[n].role = "tool" /\ msgs[n].tool_call_id = id}

AllAnswered(msgs) ==
  \A k \in 1 .. Len(msgs) :
    \A tc \in Range(ToolCallsOf(msgs[k])) :
      Cardinality(AnswersTo(msgs, k, tc.id)) = 1

TurnOver == pc = "idle" /\ result.kind # "none"

\* C1: callLLM is called at most maxIterations times in a turn, and a turn
\* in which every reply carried a tool call ends after exactly
\* maxIterations calls by returning "Reached max iterations."
C1_StatedExhaustion ==
  /\ modelCalls <= session.maxIterations
  /\ (TurnOver /\ allToolReplies) =>
       /\ modelCalls = session.maxIterations
       /\ result = Returned("exhausted", ExhaustionNotice)

\* C2: whenever callLLM is called, every tool call id of every assistant
\* message of the Conversation is answered by exactly one tool-role message
\* placed after it and before the next assistant or user message
C2_StatedAnsweredAtCall ==
  pc = "awaitLLM" => AllAnswered(request.messages)

\* sub occurs in s as a run of consecutive pieces
Contains(s, sub) ==
  \E k \in 0 .. (Len(s) - Len(sub)) : SubSeq(s, k + 1, k + Len(sub)) = sub

Invoked(id) == \E h \in Range(handlerLog) : h.id = id

\* C3: the handler of an approval-gated tool runs for a tool call only if
\* requestApproval was evaluated for that tool call and returned true; a
\* tool call the gate refused has no handler invocation
C3_GatedHandlerNeedsApproval ==
  /\ \A h \in Range(handlerLog) :
       h.name \in APPROVAL_TOOLS =>
         \E g \in Range(gateLog) : g.id = h.id /\ g.name = h.name /\ g.approved
  /\ \A g \in Range(gateLog) : ~g.approved => ~Invoked(g.id)

C3_Witness ==
  /\ \E h \in Range(handlerLog) : h.name = "write_file"
  /\ \E g \in Range(gateLog) : g.name = "write_file" /\ ~g.approved

\* C4: for a tool call the gate refused, the Conversation holds a tool-role
\* message with its tool_call_id whose content contains the requested path,
\* and its handler was not called
C4_DenialNamesPath ==
  \A g \in Range(gateLog) :
    ~g.approved =>
      /\ ~Invoked(g.id)
      /\ \E n \in 1 .. Len(messages) :
           /\ messages[n].role = "tool"
           /\ messages[n].tool_call_id = g.id
           /\ messages[n].content.t = "string"
           /\ Field(g.args, "path").t = "string" =>
                Contains(messages[n].content.s, Field(g.args, "path").s)

C4_Witness ==
  \E g \in Range(gateLog) :
    /\ ~g.approved
    /\ g.name = "write_file"
    /\ Field(g.args, "path") = Str(<<"local/out.txt">>)
    /\ \E n \in 1 .. Len(messages) :
         /\ messages[n].tool_call_id = g.id
         /\ Contains(messages[n].content.s, <<"local/out.txt">>)

\* the last message of msgs is a tool-role message answering id with a text
EndsWithAnswer(msgs, id) ==
  /\ Len(msgs) > 0
  /\ msgs[Len(msgs)].role = "tool"
  /\ msgs[Len(msgs)].tool_call_id = id
  /\ msgs[Len(msgs)].content.t = "string"

\* C5: a tool call whose arguments cannot be decoded does not make chat
\* throw: no handler runs, a tool-role message with its tool_call_id is
\* appended, and the loop goes on to the next tool call of the round
C5_StatedDecodeFailureRecorded ==
  [][(pc = "dispatch" /\ ~parsed.ok) =>
       /\ result'.kind # "thrown"
       /\ Len(messages') = Len(messages) + 1
       /\ EndsWithAnswer(messages', toolCall.id)
       /\ handlerLog' = handlerLog
       /\ j < Len(assistantMessage.tool_calls.a) =>
            (pc' = "dispatch" /\ j' = j + 1)]_vars

\* C6: a tool call whose name is not in the registry is answered by the
\* same "unknown tool" text with its tool_call_id, whatever its arguments
\* are; chat does not throw and no handler is invoked
C6_StatedUnknownToolRecorded ==
  [][(pc = "dispatch" /\ toolName \notin toolHandlers) =>
       /\ result'.kind # "thrown"
       /\ messages' =
            Append(messages, ToolMessage(toolCall.id, UnknownToolText(toolName)))
       /\ handlerLog' = handlerLog]_vars

\* C7: a failure inside a handler does not leave it: whatever happens while
\* chat awaits a handler it called with an arguments object, a text is
\* appended as the tool-role message of the tool call and chat does not throw
C7_StatedHandlerFailureIsText ==
  [][(pc = "awaitHandler" /\ toolArgs.t = "object") =>
       /\ result'.kind # "thrown"
       /\ Len(messages') = Len(messages) + 1
       /\ EndsWithAnswer(messages', toolCall.id)]_vars

\* every handler invocation of the current turn was answered within msgs
ToolRunsAnsweredIn(msgs) ==
  \A h \in Range(handlerLog) :
    h.turn = turns =>
      \E n \in 1 .. Len(msgs) :
        msgs[n].role = "tool" /\ msgs[n].tool_call_id = h.id

\* C8: when callLLM fails with a non-success status, chat throws and is
\* over, the failed call was the last call of the turn, no handler ran
\* after it, and the Conversation is the one that call was given
C8_TransportFailureAborts ==
  result.cause = "transport" =>
    /\ result.kind = "thrown"
    /\ pc = "idle"
    /\ messages = request.messages
    /\ modelCalls = i + 1
    /\ ToolRunsAnsweredIn(request.messages)

C8_Witness ==
  /\ result.cause = "transport"
  /\ i = 1
  /\ \E h \in Range(handlerLog) : h.turn = turns
  /\ Len(messages) >= 4

\* C9: a reply without choices makes chat throw, with nothing appended to
\* the Conversation the call was given and no handler run
C9_NoChoiceAborts ==
  result.cause = "nochoice" =>
    /\ result.kind = "thrown"
    /\ pc = "idle"
    /\ messages = request.messages
    /\ modelCalls = i + 1
    /\ ToolRunsAnsweredIn(request.messages)

C9_Witness ==
  /\ result.cause = "nochoice"
  /\ result.kind = "thrown"
  /\ i = 1
  /\ messages[Len(messages)].role = "tool"

NoToolCalls(m) ==
  \/ m.tool_calls.t = "undefined"
  \/ m.tool_calls.t = "array" /\ Len(m.tool_calls.a) = 0

\* C10: a reply whose message has no tool calls ends the turn: the message
\* is appended, no handler runs, no further call is made, and chat returns
\* the content, or "No response" when the content is absent or empty; on
\* round 1 that is one call and no handler run.  Tool calls are dispatched,
\* and a later round is started, only after a message that has tool calls
C10_FinalReplyEndsTurn ==
  /\ pc \in {"dispatch", "awaitHandler"} => ~NoToolCalls(assistantMessage)
  /\ (pc = "awaitLLM" /\ i > 0) => ~NoToolCalls(assistantMessage)
  /\ result.cause = "final" =>
       /\ result.kind = "returned"
       /\ pc = "idle"
       /\ NoToolCalls(assistantMessage)
       /\ messages = Append(request.messages, assistantMessage)
       /\ result.value =
            IF /\ assistantMessage.content.t = "string"
               /\ Len(assistantMessage.content.s) > 0
            THEN assistantMessage.content
            ELSE Str(<<"No response">>)
       /\ modelCalls = i + 1
       /\ ToolRunsAnsweredIn(request.messages)
       /\ i = 0 =>
            /\ modelCalls = 1
            /\ \A h \in Range(handlerLog) : h.turn # turns

C10_Witness ==
  /\ result.cause = "final"
  /\ i = 0
  /\ assistantMessage.content = Str(<<>>)
  /\ assistantMessage.tool_calls = Arr(<<>>)
  /\ result.value = Str(<<"No response">>)

IsPrefix(s, t) == Len(s) <= Len(t) /\ SubSeq(t, 1, Len(s)) = s

\* C11: the Conversation is append-only: every step of a session, whatever
\* the outcome of the turn it belongs to (final answer, exhaustion, thrown
\* failure), leaves every message where it was and unchanged, so the
\* Conversation before the step is a prefix of the Conversation after it
C11_AppendOnly ==
  [][IsPrefix(messages, messages')]_vars

\* a second turn was exhausted after a round whose tool call was answered:
\* the round is still in the Conversation, after the first turn's messages
C11_Witness ==
  /\ turns = 2
  /\ result = Returned("exhausted", ExhaustionNotice)
  /\ messages[Len(messages)].role = "tool"
  /\ messages[Len(messages) - 1].role = "assistant"
  /\ Cardinality({n \in 1 .. Len(messages) : messages[n].role = "user"}) = 2

\* C12: the Conversation holds exactly one system-role message, it is the
\* first message, and its content is the system prompt createChat was given
C12_OneSystemMessageFirst ==
  /\ Len(messages) >= 1
  /\ messages[1] = Msg("system", session.systemPrompt, undefined, undefined)
  /\ \A n \in 2 .. Len(messages) : messages[n].role # "system"

\* the second turn of a session, after a first turn that ran a round
C12_Witness ==
  /\ turns = 2
  /\ pc = "awaitLLM"
  /\ \E n \in 1 .. Len(messages) : messages[n].role = "tool"
  /\ messages[1].role = "system"

\* the substrings of s that begin at an occurrence of prefix and go on with
\* one or more characters of class
TokensOf(s, prefix, class) ==
  UNION {{SubSeq(s, p, e) :
            e \in (p + Len(prefix)) ..
                    (RunEnd(s, p + Len(prefix), class) - 1)} :
         p \in {q \in 1 .. Len(s) : StartsWith(s, q, prefix)}}

\* the substrings of s that have the shape of an API key: sk- followed by
\* letters and digits, or AIzaSy followed by letters, digits, _ and -
KeyTokens(s) ==
  TokensOf(s, SkPrefix, AlphaNumeric)
    \cup TokensOf(s, AIzaSyPrefix, KeyCharacters)

\* sub stands somewhere in s
Occurs(s, sub) == \E p \in 1 .. Len(s) : StartsWith(s, p, sub)

\* C13: the error chat throws for a response that is not ok contains none of
\* the key-shaped tokens (such as sk-a9) that the error body contains
C13_NoKeyInThrownError ==
  result.cause = "transport" =>
    \A token \in KeyTokens(response.body.s) :
      ~Occurs(result.value.s, token)

\* the body held an AIzaSy key that goes on into the key sk-a9: the error
\* thrown shows the redaction marks in their place
C13_Witness ==
  /\ result.cause = "transport"
  /\ SkPrefix \o <<"a", "9">> \in KeyTokens(response.body.s)
  /\ AIzaSyPrefix \o <<"-">> \in KeyTokens(response.body.s)
  /\ Occurs(result.value.s, AIzaSyPrefix \o Stars)

\* the part of the thrown text after "API error (status): "
BodyPart(text) == SubSeq(text.s, 4, Len(text.s))

\* C18: the body part of the error thrown for a response that is not ok is
\* at most 500 characters long and is the beginning of the redacted error
\* body (all of it when that is shorter than 500 characters): the
\* replacements are applied to the whole body and the cut comes after them
C18_RedactedThenCut ==
  result.cause = "transport" =>
    LET part == BodyPart(result.value) IN
      /\ Len(part) <= 500
      /\ IsPrefix(part, Redact(response.body.s))
      /\ Len(part) < 500 => part = Redact(response.body.s)

\* a body of exactly 500 characters that ends with the key sk-a9: redacted
\* it has 501 characters, and the cut goes through the redaction mark
C18_Witness ==
  /\ result.cause = "transport"
  /\ Len(response.body.s) = 500
  /\ response.body.s = Pad \o SkPrefix \o <<"a", "9">>
  /\ BodyPart(result.value) = Pad \o SkPrefix \o <<"*", "*">>

\* C14 as stated: requestApproval returns true only for the input "y"
\* itself, and false for every other input, an absent or empty one and a
\* "y" in another case or between spaces included
C14_StatedExactToken ==
  \A g \in Range(gateLog) : g.approved <=> g.answer = Str(<<"y">>)

\* text is the letter y, in either case, between any whitespace
AffirmativeOnceNormalised(text) ==
  \E k \in 1 .. Len(text) :
    /\ text[k] \in {"y", "Y"}
    /\ \A m \in 1 .. Len(text) : m # k => text[m] \in {" ", "\n", "\t"}

\* C14: requestApproval returns true exactly when the operator's input,
\* with the surrounding whitespace removed and put in lower case, is "y";
\* for an absent or empty input and every other text it returns false
C14_AffirmativeAfterTrimAndCase ==
  \A g \in Range(gateLog) :
    g.approved <=>
      (g.answer.t = "string" /\ AffirmativeOnceNormalised(g.answer.s))

\* the prompt was answered " Y " once and with nothing once
C14_Witness ==
  /\ \E g \in Range(gateLog) :
       g.answer = Str(<<" ", "Y", " ">>) /\ g.approved
  /\ \E g \in Range(gateLog) : g.answer = Str(<<>>) /\ ~g.approved

\* the usage values of the replies received in the given turn
UsagesOfTurn(turn) ==
  SelectSeq(usageLog, LAMBDA e : e.turn = turn)

\* the number a present usage carries in the field, 0 for an absent usage
\* or an absent field
RECURSIVE SumOfField(_, _)
SumOfField(entries, field) ==
  IF entries = <<>> THEN 0
  ELSE LET u == Head(entries).usage
           v == IF u = undefined THEN undefined
                ELSE CASE field = "prompt_tokens" -> u.prompt_tokens
                       [] field = "completion_tokens" -> u.completion_tokens
                       [] OTHER -> u.prompt_cache_hit_tokens
       IN (IF v.t = "number" THEN v.n ELSE 0)
            + SumOfField(Tail(entries), field)

\* the number a printed text of digits and group separators stands for
RECURSIVE NumberOf(_)
NumberOf(text) ==
  IF text = <<>> THEN 0
  ELSE LET last == text[Len(text)]
           rest == SubSeq(text, 1, Len(text) - 1)
       IN IF last = "," THEN NumberOf(rest)
          ELSE 10 * NumberOf(rest)
                 + (CHOOSE d \in 0 .. 9 : DigitCharacter(d) = last)

\* C15: during a turn and at its end the three totals are the sums of the
\* usage values of the replies received in that turn alone, a reply without
\* usage (or without the cache field) counting for zero; the "Total" line
\* printed with the final answer shows these sums, the cache hits as the
\* nearest whole percentage of the input tokens
C15_TotalsAreTurnSums ==
  LET sumIn == SumOfField(UsagesOfTurn(turns), "prompt_tokens")
      sumOut == SumOfField(UsagesOfTurn(turns), "completion_tokens")
      sumCached == SumOfField(UsagesOfTurn(turns), "prompt_cache_hit_tokens")
  IN /\ totalIn = sumIn /\ totalOut = sumOut /\ totalCached = sumCached
     /\ result.cause = "final" =>
          /\ totalLine # undefined
          /\ NumberOf(totalLine.in) = sumIn
          /\ NumberOf(totalLine.out) = sumOut
          /\ LET shown == NumberOf(totalLine.cache) IN
               IF sumIn = 0 THEN shown = 0
               ELSE /\ 2 * 100 * sumCached - sumIn < 2 * shown * sumIn
                    /\ 2 * shown * sumIn <= 2 * 100 * sumCached + sumIn

\* the second turn ended with a final answer after two replies that carried
\* 600 and 800 input tokens; the first turn had received a reply without
\* usage and a reply with usage
C15_Witness ==
  /\ turns = 2
  /\ result.cause = "final"
  /\ totalLine.in = <<"1", ",", "4", "0", "0">>
  /\ totalLine.cache = <<"4", "3">>
  /\ \E e \in Range(usageLog) : e.turn = 1 /\ e.usage = undefined
  /\ \E e \in Range(usageLog) : e.turn = 1 /\ e.usage = Usage(800, 5, Num(600))

\* the messages that tell whose Conversation they belong to: the system
\* prompt, the user's inputs, and the messages that carry a tool call id
Identifying(msgs) ==
  {m \in Range(msgs) :
     \/ m.role \in {"system", "user", "tool"}
     \/ ToolCallsOf(m) # <<>>}

\* the Conversation msgs holds no system prompt and no input but those of
\* the session with this id and these createChat arguments
OwnMessagesOnly(msgs, sessionId, args) ==
  \A m \in Range(msgs) :
    /\ m.role = "system" => m.content = args.systemPrompt
    /\ m.role = "user" => m.content = UserMessageOf(sessionId)

\* C16: two sessions whose steps interleave are isolated: no identifying
\* message is in both Conversations, each Conversation holds its own
\* session's system prompt and inputs only, and the Conversation a pending
\* model call was given is the Conversation of the session that made it
C16_SessionsIsolated ==
  other # undefined =>
    /\ Identifying(messages) \cap Identifying(other.messages) = {}
    /\ OwnMessagesOnly(messages, active, session)
    /\ OwnMessagesOnly(other.messages, 3 - active, other.session)
    /\ pc = "awaitLLM" => request.messages = messages
    /\ other.pc = "awaitLLM" => other.request.messages = other.messages

\* both sessions are in the middle of a turn: one awaits the model after a
\* tool round, the other awaits a handler
C16_Witness ==
  /\ other # undefined
  /\ pc = "awaitLLM" /\ i = 1
  /\ other.pc = "awaitHandler"
  /\ Len(messages) >= 4
  /\ Len(other.messages) >= 3

\* the handler invocations recorded for the tool call id
InvocationsOf(id) == {n \in 1 .. Len(handlerLog) : handlerLog[n].id = id}

\* C17 as stated: by the time the next model call is made or the turn is
\* over, every tool call of the Conversation that names a registered tool,
\* is not gated or was approved, and has decodable arguments had its handler
\* invoked exactly once, with the decoded arguments, and is answered by
\* exactly one tool-role message, which carries a text
C17_StatedInvokedOnceAnswered ==
  (pc = "awaitLLM" \/ TurnOver) =>
    \A k \in 1 .. Len(messages) :
      \A tc \in Range(ToolCallsOf(messages[k])) :
        (/\ JSONParse(tc.arguments).ok
         /\ Lookup(toolHandlers, tc.name) = "own"
         /\ tc.name \in APPROVAL_TOOLS =>
              \E g \in Range(gateLog) : g.id = tc.id /\ g.approved)
        => /\ Cardinality(InvocationsOf(tc.id)) = 1
           /\ \A n \in InvocationsOf(tc.id) :
                handlerLog[n].args = JSONParse(tc.arguments).val
           /\ Cardinality(AnswersTo(messages, k, tc.id)) = 1
           /\ \A n \in AnswersTo(messages, k, tc.id) :
                messages[n].content.t = "string"

\* in msgs the tool-role messages that follow an assistant message answer
\* its tool calls one by one from the first on
AnsweredInRequestOrder(msgs) ==
  \A k \in 1 .. Len(msgs) :
    LET calls == ToolCallsOf(msgs[k]) IN
      calls # <<>> =>
        \A n \in 1 .. (SegmentEnd(msgs, k) - 1 - k) :
          /\ n <= Len(calls)
          /\ msgs[k + n].role = "tool"
          /\ msgs[k + n].tool_call_id = calls[n].id

\* the Conversation ends with the current round's assistant message and the
\* tool-role messages of its tool calls 1 .. n, and with nothing more
RoundAnsweredUpTo(n) ==
  /\ Len(messages) > n
  /\ messages[Len(messages) - n] = assistantMessage
  /\ \A m \in 1 .. n :
       /\ messages[Len(messages) - n + m].role = "tool"
       /\ messages[Len(messages) - n + m].tool_call_id =
            assistantMessage.tool_calls.a[m].id

\* C19: the tool calls of a round are processed one at a time in the order
\* of the assistant message: after every step the tool-role messages of
\* every round stand in the order of its tool calls, and a step that starts
\* a handler or puts the approval prompt does so for tool call j of the
\* current round when the tool-role messages of tool calls 1 .. j-1, and no
\* others, have been appended
C19_SequentialInRequestOrder ==
  [][/\ AnsweredInRequestOrder(messages')
     /\ (handlerLog' # handlerLog \/ gateLog' # gateLog) =>
          /\ pc = "dispatch"
          /\ RoundAnsweredUpTo(j - 1)
          /\ handlerLog' # handlerLog =>
               handlerLog'[Len(handlerLog')].id =
                 assistantMessage.tool_calls.a[j].id
          /\ gateLog' # gateLog =>
               gateLog'[Len(gateLog')].id =
                 assistantMessage.tool_calls.a[j].id]_vars

\* the handler of the second tool call of a round runs; the first tool
\* call, which went through the approval prompt, is answered
C19_Witness ==
  /\ pc = "awaitHandler"
  /\ j = 2
  /\ RoundAnsweredUpTo(1)
  /\ handlerLog[Len(handlerLog)].id = assistantMessage.tool_calls.a[2].id
  /\ \E g \in Range(gateLog) : g.id = assistantMessage.tool_calls.a[1].id

\* C20 as stated: a handler runs only for a tool whose declaration the
\* session was given, and a tool call that names a registered tool outside
\* the session's declarations is answered with the "unknown tool" text
C20_StatedSubsetEnforced ==
  /\ \A h \in Range(handlerLog) : h.name \in session.tools
  /\ \A k \in 1 .. Len(messages) :
       \A tc \in Range(ToolCallsOf(messages[k])) :
         tc.name \notin session.tools =>
           \A n \in AnswersTo(messages, k, tc.id) :
             messages[n].content = UnknownToolText(tc.name)


(***************************************************************************)
(* What callLLM is handed.                                                 *)
(***************************************************************************)
\* the last message of the Conversation serialised by the pending callLLM
LastSent == request.messages[Len(request.messages)]

\* the ids of the tool calls the assistant message m requested
IdsOf(m) == {ToolCallsOf(m)[k].id : k \in 1 .. Len(ToolCallsOf(m))}

\* C23: the Conversation handed to a callLLM never ends with an assistant
\* message: in the first round of a turn (i = 0) its last message is the
\* user message chat() has just pushed, and in a later round it is a tool
\* message that answers a tool call of the preceding round's assistant
\* message.
C23_RequestEndsWithUserOrTool ==
  pc = "awaitLLM" =>
    /\ request.messages = messages
    /\ LastSent.role # "assistant"
    /\ i = 0 =>
         /\ LastSent.role = "user"
         /\ LastSent.content \in UserMessages
    /\ i > 0 =>
         /\ LastSent.role = "tool"
         /\ assistantMessage # undefined
         /\ LastSent.tool_call_id \in IdsOf(assistantMessage)
         /\ \E k \in 1 .. Len(request.messages) - 1 :
              /\ request.messages[k] = assistantMessage
              /\ \A n \in k + 1 .. Len(request.messages) :
                   request.messages[n].role = "tool"

\* a second round is pending in the second turn: what was sent ends with
\* the answer to the call of the round before
C23_Witness ==
  /\ pc = "awaitLLM"
  /\ turns = 2
  /\ i = 1
  /\ LastSent.role = "tool"
  /\ LastSent.tool_call_id \in IdsOf(assistantMessage)

(***************************************************************************)
(* The registry lookup precedes the approval prompt.                       *)
(***************************************************************************)
\* the last entry of a log
Last(log) == log[Len(log)]

\* C22: the approval prompt is put only for a tool call that reached the
\* registry lookup, whose name is gated and has a handler in the registry;
\* the lookup of a gated name without a handler appends the "unknown tool"
\* message of the call, puts no prompt and invokes nothing; the lookup of a
\* registered name that is not gated invokes its handler and puts no prompt.
C22_LookupPrecedesGate ==
  [][/\ gateLog' # gateLog =>
          /\ ReachesLookup
          /\ toolName \in APPROVAL_TOOLS
          /\ toolName \in toolHandlers
          /\ gateLog' = Append(gateLog, Last(gateLog'))
          /\ Last(gateLog').id = toolCall.id
          /\ Last(gateLog').name = toolName
     /\ (ReachesLookup /\ toolName \in APPROVAL_TOOLS
           /\ toolName \notin toolHandlers) =>
          /\ gateLog' = gateLog
          /\ handlerLog' = handlerLog
          /\ result'.kind # "thrown"
          /\ messages' =
               Append(messages,
                      ToolMessage(toolCall.id, UnknownToolText(toolName)))
     /\ (ReachesLookup /\ toolName \notin APPROVAL_TOOLS
           /\ toolName \in toolHandlers) =>
          /\ gateLog' = gateLog
          /\ handlerLog' = Append(handlerLog, Last(handlerLog'))
          /\ Last(handlerLog').id = toolCall.id
          /\ Last(handlerLog').name = toolName]_vars

\* on the build of tools.ts a write_file call was answered with the
\* "unknown tool" text and a read_file call was executed, and the operator
\* was never asked
C22_Witness ==
  /\ toolHandlers = ToolsTsHandlers
  /\ gateLog = <<>>
  /\ \E m \in Range(messages) :
       m.role = "tool" /\ m.content = UnknownToolText("write_file")
  /\ \E h \in Range(handlerLog) : h.name = "read_file"
  /\ pc = "idle"

(***************************************************************************)
(* chat() called again while an invocation is suspended.                   *)
(***************************************************************************)
\* in msgs every assistant message with tool calls is followed by the
\* tool-role messages of its calls, with no other message before the last
\* of them (as far as msgs reaches)
ResultsFollowCalls(msgs) ==
  \A k \in 1 .. Len(msgs) :
    LET calls == ToolCallsOf(msgs[k]) IN
      \A n \in 1 .. Len(calls) :
        k + n <= Len(msgs) =>
          /\ msgs[k + n].role = "tool"
          /\ msgs[k + n].tool_call_id = calls[n].id

\* every tool call of the assistant message m has its tool-role message in
\* msgs
ResultsAppended(msgs, m) ==
  \A id \in IdsOf(m) :
    \E n \in 1 .. Len(msgs) :
      msgs[n].role = "tool" /\ msgs[n].tool_call_id = id

\* C21 as stated: also when chat() is called again while an invocation is
\* suspended, no message is ever appended between an assistant message
\* with tool calls and the tool-role messages of those calls, and an
\* invocation starts the model call of its next round only when the
\* tool-role messages of its current round are all appended
C21_StatedSingleThread ==
  [][/\ ResultsFollowCalls(messages')
     /\ (active' = active /\ pc' = "awaitLLM" /\ i' = i + 1) =>
          ResultsAppended(messages', assistantMessage)]_vars
====
